---- MODULE Spec2Model ----
(***************************************************************************)
(* Model of the ingestion and hybrid-retrieval pipeline of                 *)
(* Compliance-Helper: utils/ingest.py (chunk_text, index_documents),       *)
(* models/embeddings.py (embed_texts) and utils/retriever.py               *)
(* (load_index_and_meta, retrieve).                                        *)
(*                                                                         *)
(* Python indices are kept 0-based as in the source; the TLA+ sequences    *)
(* that hold the lists are 1-based, so list[x] is written seq[x + 1].      *)
(***************************************************************************)
EXTENDS Integers, Sequences, FiniteSets, TLC

----------------------------------------------------------------------------
(* Bounds of the model *)

MaxSent == 4
MaxTok == 2
MaxArg == 3
MaxFiles == 2
MaxBuilds == 2
MaxK == 2

\* ingest.py line 271
batch_size == 20

----------------------------------------------------------------------------
(* Generic helpers *)

Max(a, b) == IF a >= b THEN a ELSE b

Min(a, b) == IF a <= b THEN a ELSE b

\* An optional integer argument: None, or a given value.
None == [given |-> FALSE, val |-> 0]

Some(v) == [given |-> TRUE, val |-> v]

\* Python's `arg or default` on an optional int: None and 0 are both falsy.
OrDefault(arg, default) ==
    IF arg.given /\ arg.val # 0 THEN arg.val ELSE default

----------------------------------------------------------------------------
(* chunk_text: the pure parts *)

RECURSIVE InnerLoop(_, _, _, _)
\* while j < N and token_acc < chunk_size: token_acc += sent_tokens[j]; j += 1
InnerLoop(toks, j, token_acc, csize) ==
    IF j < Len(toks) /\ token_acc < csize
      THEN InnerLoop(toks, j + 1, token_acc + toks[j + 1], csize)
      ELSE j

RECURSIVE OverlapLoop(_, _, _, _, _, _)
\* while (j-1-k) >= 0 and ov_acc < overlap: ...; if (j-k) <= i: break
OverlapLoop(toks, i, j, k, ov_acc, ov) ==
    IF (j - 1 - k) >= 0 /\ ov_acc < ov
      THEN IF (j - (k + 1)) <= i
             THEN k + 1
             ELSE OverlapLoop(toks, i, j, k + 1, ov_acc + toks[j - k], ov)
      ELSE k

NextStartNoProgress(toks, i, j, ov) ==
    IF ov <= 0 THEN j ELSE j - OverlapLoop(toks, i, j, 0, 0, ov)

NextStartGap(toks, i, j, ov) ==
    IF ov <= 0 THEN j + 1 ELSE Max(i + 2, j + 1 - OverlapLoop(toks, i, j, 0, 0, ov))

\* next_start, computed after a chunk [i, j) with j < N has been closed
NextStart(toks, i, j, ov) ==
    IF ov <= 0
      THEN j
      ELSE Max(i + 1, j - OverlapLoop(toks, i, j, 0, 0, ov))

\* chunk_sentences collected by the inner loop for the run [i, j)
ChunkSentences(sents, i, j) == SubSeq(sents, i + 1, j)

\* `if chunk_text: chunks.append(chunk_text)`: the joined text is empty
\* only when no sentence was collected (sentences are non-empty strings)
AppendChunk(chunks, chunk_sentences) ==
    IF chunk_sentences # <<>> THEN Append(chunks, chunk_sentences) ELSE chunks

RECURSIVE ChunkLoop(_, _, _, _, _, _)
\* the outer `while i < N` loop, started at i with the chunks emitted so far
ChunkLoop(sents, toks, i, chunks, csize, ov) ==
    IF i < Len(sents)
      THEN LET j == InnerLoop(toks, i, 0, csize)
               chunks2 == AppendChunk(chunks, ChunkSentences(sents, i, j))
           IN  IF j >= Len(sents)
                 THEN chunks2
                 ELSE ChunkLoop(sents, toks, NextStart(toks, i, j, ov),
                                chunks2, csize, ov)
      ELSE chunks

\* chunk_text(text) as index_documents calls it: both parameters defaulted
\* from config; "ValueError" stands for the raise of line 181
ChunkTextDefault(doc, cfg_size, cfg_overlap) ==
    IF cfg_size <= 0
      THEN "ValueError"
      ELSE ChunkLoop(doc.sentences, doc.sent_tokens, 0, <<>>, cfg_size, cfg_overlap)

----------------------------------------------------------------------------
(* Embedding provider and embed_texts *)

RECURSIVE SumSeq(_)
SumSeq(seq) == IF seq = <<>> THEN 0 ELSE seq[1] + SumSeq(SubSeq(seq, 2, Len(seq)))

RECURSIVE Gcd(_, _)
Gcd(a, b) == IF b = 0 THEN a ELSE Gcd(b, a % b)

\* The vector the embedding model assigns to a text (a chunk is the sequence
\* of its sentences): a deterministic, non-zero vector of dimension 2.
Embed(text) == <<SumSeq(text), Len(text)>>

\* faiss.normalize_L2 on one row: the unit vector of a direction, kept here
\* as the primitive integer vector of that direction; a zero row is left alone
NormalizeL2(v) ==
    LET g == Gcd(v[1], v[2])
    IN  IF g = 0 THEN v ELSE <<v[1] \div g, v[2] \div g>>

\* What the provider may answer to embed_content(contents = texts): the call
\* raises, or resp.embeddings is a list of items; an item is the vector that
\* _extract_from_item finds in it, <<>> when it finds none.
Faithful(texts) == [t \in 1..Len(texts) |-> Embed(texts[t])]

ProviderResponses(texts) ==
    { [api_ok |-> FALSE, embeddings |-> <<>>],
      [api_ok |-> TRUE, embeddings |-> Faithful(texts)],
      [api_ok |-> TRUE, embeddings |-> SubSeq(Faithful(texts), 1, Len(texts) - 1)],
      [api_ok |-> TRUE, embeddings |-> Append(Faithful(texts), <<1, 1>>)],
      [api_ok |-> TRUE, embeddings |-> [Faithful(texts) EXCEPT ![1] = <<>>]] }

\* _extract_from_item succeeded: `if vec` / `if not vec`
Extracted(item) == item # <<>>

\* embed_texts after the API call: shape 1 (lines 72-99), then shape 4
\* (lines 163-176) for a response object whose __dict__ holds `embeddings`;
\* shapes 2 and 3 do not apply to such an object.  Result: the list returned,
\* or "RuntimeError".
embed_texts(resp, texts) ==
    IF ~resp.api_ok
      THEN "RuntimeError"
      ELSE LET out == SelectSeq(resp.embeddings, Extracted)
           IN  IF out # <<>> /\ Len(out) = Len(texts) THEN out
               ELSE IF out # <<>> /\ Len(out) >= 1
                         /\ Len(out) = Len(resp.embeddings) THEN out
               ELSE IF out # <<>> /\ Len(out) = Len(texts) THEN out
               ELSE "RuntimeError"

----------------------------------------------------------------------------
(* index_documents: the pure parts *)

\* lines 261-263 for one document: one record per chunk, chunk_id dense from 0
DocMetadata(doc_name, doc_chunks) ==
    [c \in 1..Len(doc_chunks) |->
        [doc_id |-> doc_name, chunk_id |-> c - 1, text |-> doc_chunks[c]]]

RECURSIVE BuildMetadata(_, _, _, _)
\* lines 253-263 over docs[d..]: metadata in document order
BuildMetadata(docs, d, cfg_size, cfg_overlap) ==
    IF d > Len(docs)
      THEN <<>>
      ELSE DocMetadata(docs[d].name,
                       ChunkTextDefault(docs[d], cfg_size, cfg_overlap))
             \o BuildMetadata(docs, d + 1, cfg_size, cfg_overlap)

\* all_chunks is appended to in step with metadata (line 263)
AllChunks(meta) == [m \in 1..Len(meta) |-> meta[m].text]

\* line 267: `if not all_chunks`
EmptyCorpusUnchecked(chunk_list) == FALSE

EmptyCorpus(chunk_list) == chunk_list = <<>>

BatchTextsShort(chunk_list, i) ==
    SubSeq(chunk_list, i + 1, Min(i + batch_size - 1, Len(chunk_list)))

\* line 274: all_chunks[i:i+batch_size]
BatchTexts(chunk_list, i) ==
    SubSeq(chunk_list, i + 1, Min(i + batch_size, Len(chunk_list)))

\* lines 278-282: normalize every row and add the rows to a flat index
\* (embeddings is not empty there: line 267 has let no empty corpus through)
BuildIndex(embs) ==
    [d |-> IF embs = <<>> THEN 0 ELSE Len(embs[1]),
     vectors |-> [e \in 1..Len(embs) |-> NormalizeL2(embs[e])]]

\* A file that does not exist, and a file holding `content` written by build b
NoFile == [exists |-> FALSE, build |-> 0, content |-> <<>>]

FileOf(b, content) == [exists |-> TRUE, build |-> b, content |-> content]

----------------------------------------------------------------------------
(* retrieve: the pure parts.  Scores are kept in hundredths: a similarity of
   0.18 is 18, the lexical pseudo-score sc/100.0 is sc. *)

\* The words of a sentence: one word common to all sentences, and its own
SentenceWords(s) == {0, s}

\* re.findall(r"\w+", text.lower()) as a set, for a text made of sentences
TextWords(text) == UNION {SentenceWords(text[m]) : m \in 1..Len(text)}

\* _keyword_score: number of distinct words shared by query and text
KeywordScore(q_words, text) == Cardinality(q_words \cap TextWords(text))

\* The distance faiss reports next to a -1 label
PadScore == -1000

\* line 41, metadata[idx]: a Python list takes a negative index from the end
ListItem(list, idx) ==
    IF idx >= 0 THEN list[idx + 1] ELSE list[Len(list) + idx + 1]

OutOfRangeAboveOnly(idx, n) == idx >= n

\* line 39: the label is no position of the metadata
OutOfRange(idx, n) == idx < 0 \/ idx >= n

RECURSIVE SemanticLoop(_, _, _, _)
\* lines 37-47, from position p of zip(D[0], I[0])
SemanticLoop(D, I, meta, p) ==
    IF p > Len(I)
      THEN <<>>
      ELSE IF OutOfRange(I[p], Len(meta))
             THEN SemanticLoop(D, I, meta, p + 1)
             ELSE <<[score |-> D[p],
                     doc_id |-> ListItem(meta, I[p]).doc_id,
                     chunk_id |-> ListItem(meta, I[p]).chunk_id,
                     text |-> ListItem(meta, I[p]).text]>>
                    \o SemanticLoop(D, I, meta, p + 1)

\* line 50
TopScore(res) == IF res # <<>> THEN res[1].score ELSE 0

FallbackNeededInclusive(top_score, threshold) == top_score <= threshold

\* line 51
FallbackNeeded(top_score, threshold) == top_score < threshold

InsertDescUnstable(sorted, x) ==
    LET before == {p \in 1..Len(sorted) : sorted[p].score > x.score}
        n == Cardinality(before)
    IN  SubSeq(sorted, 1, n) \o <<x>> \o SubSeq(sorted, n + 1, Len(sorted))

\* list.sort(key = score, reverse = True) is stable: an element goes behind
\* every earlier element whose score is not smaller
InsertDesc(sorted, x) ==
    LET before == {p \in 1..Len(sorted) : sorted[p].score >= x.score}
        n == Cardinality(before)
    IN  SubSeq(sorted, 1, n) \o <<x>> \o SubSeq(sorted, n + 1, Len(sorted))

RECURSIVE SortDescFrom(_, _, _)
SortDescFrom(seq, p, sorted) ==
    IF p > Len(seq)
      THEN sorted
      ELSE SortDescFrom(seq, p + 1, InsertDesc(sorted, seq[p]))

\* lines 59 and 78: sort by score, descending
SortDesc(seq) == SortDescFrom(seq, 1, <<>>)

\* lines 53-57: (sc, m) for the records with sc > 0, in metadata order
LexScores(q_words, meta) ==
    LET Pair(m) == [score |-> KeywordScore(q_words, meta[m].text), m |-> meta[m]]
        all == [m \in 1..Len(meta) |-> Pair(m)]
        Positive(pr) == pr.score > 0
    IN  SelectSeq(all, Positive)

ResultKey(r) == <<r.doc_id, r.chunk_id>>

\* line 62
ExistingKeys(res) == {ResultKey(res[r]) : r \in 1..Len(res)}

RECURSIVE MergeLoop(_, _, _, _, _, _)
\* lines 63-75, from position p of lex_scores[:lexical_k]
MergeLoop(top, p, res, added, existing_keys, lex_k) ==
    IF p > Len(top)
      THEN res
      ELSE IF ResultKey(top[p].m) \in existing_keys
             THEN MergeLoop(top, p + 1, res, added, existing_keys, lex_k)
             ELSE LET res2 == Append(res, [score |-> top[p].score,
                                           doc_id |-> top[p].m.doc_id,
                                           chunk_id |-> top[p].m.chunk_id,
                                           text |-> top[p].m.text])
                  IN  IF added + 1 >= lex_k
                        THEN res2
                        ELSE MergeLoop(top, p + 1, res2, added + 1,
                                       existing_keys, lex_k)

\* seq[:n] for n >= 0
Prefix(seq, n) == SubSeq(seq, 1, Min(n, Len(seq)))

\* lines 52-75
LexicalFallback(q_words, meta, res, lex_k) ==
    LET lex_scores == SortDesc(LexScores(q_words, meta))
    IN  MergeLoop(Prefix(lex_scores, lex_k), 1, res, 0, ExistingKeys(res), lex_k)

----------------------------------------------------------------------------
(* State *)

VARIABLES
    CHUNK_SIZE,       \* config.CHUNK_SIZE
    CHUNK_OVERLAP,    \* config.CHUNK_OVERLAP
    sentences,        \* chunk_text: the sentences of the text (distinct ids)
    sent_tokens,      \* chunk_text: token count of each sentence
    chunk_size_arg,   \* chunk_text: argument chunk_size as passed
    overlap_arg,      \* chunk_text: argument overlap as passed
    chunk_size,       \* chunk_text: local chunk_size after defaulting
    overlap,          \* chunk_text: local overlap after defaulting
    ct_pc,            \* chunk_text: "entry", "loop", "returned", "raised"
    ct_i,             \* chunk_text: local i
    chunks,           \* chunk_text: local chunks
    ct_starts,        \* history: value of i at each outer iteration
    ct_ends,          \* history: value of j at each outer iteration
    fs,               \* the documents that exist as input files
    indexFile,        \* the file at config.VECTOR_STORE_PATH
    metaFile,         \* the file at config.METADATA_PATH
    debugFile,        \* ingest_debug.json
    ix_pc,            \* index_documents: "idle", "embed", "write_index",
                      \*   "write_meta", "returned", "raised"
    file_paths,       \* index_documents: argument file_paths (the documents)
    save_index,       \* index_documents: argument save_index
    metadata,         \* index_documents: local metadata
    all_chunks,       \* index_documents: local all_chunks
    ix_i,             \* index_documents: loop variable i of the batch loop
    embeddings,       \* index_documents: local embeddings
    index,            \* index_documents: local index
    ix_error,         \* index_documents: the exception it raised
    ix_build,         \* history: number of index_documents calls so far
    builds_left,      \* number of index_documents calls still to be made
    ix_faithful,      \* history: every embed_texts call of this build
                      \*   returned one vector per input, in input order
    ix_embed_calls,   \* history: embed_texts calls made by this build
    ix_docs_read,     \* history: documents read by this build
    disk0,            \* history: <<indexFile, metaFile>> when the build began
    et_texts,         \* embed_texts: argument of the last call
    et_out,           \* embed_texts: list returned by the last call
    et_status,        \* embed_texts: "none", "returned", "raised"
    rd_pc,            \* load_index_and_meta: "off", "idle", "read_index",
                      \*   "read_meta", "returned", "raised"
    rd_index,         \* load_index_and_meta: local index
    rd_meta,          \* load_index_and_meta: local metadata
    MAX_RETRIEVALS,   \* config.MAX_RETRIEVALS
    rt_pc,            \* retrieve: "idle", "call", "searched", "merged",
                      \*   "returned", "raised"
    query,            \* retrieve: argument query, as its set of words
    rt_metadata,      \* retrieve: argument metadata
    k_arg,            \* retrieve: argument k as passed
    rt_k,             \* retrieve: local k after defaulting
    lexical_k,        \* retrieve: argument lexical_k
    sim_threshold,    \* retrieve: argument sim_threshold, in hundredths
    rt_D,             \* retrieve: D[0], the scores of the search, in hundredths
    rt_I,             \* retrieve: I[0], the indices of the search
    results,          \* retrieve: local results
    rt_semantic,      \* history: results when the semantic loop ended
    rt_presort,       \* history: results right before the final sort
    rt_fallback,      \* history: the lexical fallback branch was taken
    rt_returned,      \* retrieve: the list returned
    rh_pc,            \* _remove_repeated_headers: "idle", "call", "returned"
    rh_pages,         \* _remove_repeated_headers: argument pages
    rh_cleaned,       \* _remove_repeated_headers: local cleaned_pages, as line lists
    rh_out,           \* _remove_repeated_headers: the text returned
    fl_pc,            \* _fix_hyphenation_and_broken_lines: "idle", "call", "returned"
    fl_text,          \* _fix_hyphenation_and_broken_lines: argument text
    fl_lines,         \* _fix_hyphenation_and_broken_lines: local lines
    fl_out_lines,     \* _fix_hyphenation_and_broken_lines: local out_lines
    fl_joins,         \* history: the i at which lines[i] and lines[i+1] were joined
    fl_out,           \* _fix_hyphenation_and_broken_lines: the text returned
    pdf_pc,           \* extract_text_from_pdf: "idle", "primary", "secondary",
                      \*   "clean", "returned", "raised"
    pdf_doc,          \* the pages of the PDF file
    pdf_next,         \* extract_text_from_pdf: pages the running extractor has read
    text_pages,       \* extract_text_from_pdf: local text_pages
    pdf_by,           \* history: the extractor that appended each text_pages entry
    pdf_page,         \* history: the page number of each text_pages entry
    pdf_failed,       \* history: the primary extractor raised
    pdf_full          \* extract_text_from_pdf: the text returned

cfgVars == <<CHUNK_SIZE, CHUNK_OVERLAP, MAX_RETRIEVALS>>

chunkVars == <<sentences, sent_tokens, chunk_size_arg, overlap_arg, chunk_size,
               overlap, ct_pc, ct_i, chunks, ct_starts, ct_ends>>

diskVars == <<indexFile, metaFile, debugFile>>

indexVars == <<fs, ix_pc, file_paths, save_index, metadata, all_chunks, ix_i,
               embeddings, index, ix_error, ix_build, builds_left, ix_faithful,
               ix_embed_calls, ix_docs_read, disk0, et_texts, et_out, et_status>>

loadVars == <<rd_pc, rd_index, rd_meta>>

retrVars == <<rt_pc, query, rt_metadata, k_arg, rt_k, lexical_k, sim_threshold,
              rt_D, rt_I, results, rt_semantic, rt_presort, rt_fallback,
              rt_returned>>

headVars == <<rh_pc, rh_pages, rh_cleaned, rh_out>>

lineVars == <<fl_pc, fl_text, fl_lines, fl_out_lines, fl_joins, fl_out>>

pdfVars == <<pdf_pc, pdf_doc, pdf_next, text_pages, pdf_by, pdf_page, pdf_failed,
             pdf_full>>

textVars == <<headVars, lineVars, pdfVars>>

vars == <<cfgVars, chunkVars, diskVars, indexVars, loadVars, retrVars, textVars>>

\* No _remove_repeated_headers call is made
HeadersIdle ==
    /\ rh_pc = "idle"
    /\ rh_pages = <<>>
    /\ rh_cleaned = <<>>
    /\ rh_out = <<>>

\* No _fix_hyphenation_and_broken_lines call is made
LinesIdle ==
    /\ fl_pc = "idle"
    /\ fl_text = <<>>
    /\ fl_lines = <<>>
    /\ fl_out_lines = <<>>
    /\ fl_joins = {}
    /\ fl_out = <<>>

\* No extract_text_from_pdf call is made
PdfIdle ==
    /\ pdf_pc = "idle"
    /\ pdf_doc = <<>>
    /\ pdf_next = 0
    /\ text_pages = <<>>
    /\ pdf_by = <<>>
    /\ pdf_page = <<>>
    /\ pdf_failed = FALSE
    /\ pdf_full = <<>>

\* No text is extracted from a PDF
TextIdle == HeadersIdle /\ LinesIdle /\ PdfIdle

----------------------------------------------------------------------------
(* chunk_text as a process *)

SeqsUpTo(S, n) == UNION {[1..m -> S] : m \in 0..n}

ArgValues == {None} \cup {Some(v) : v \in -1..MaxArg}

NoIndex == [d |-> 0, vectors |-> <<>>]

\* config.py line 29: the later assignment of MAX_RETRIEVALS wins
DefaultMaxRetrievals == 6

\* No retrieve call is made
RetrieveIdle ==
    /\ MAX_RETRIEVALS = DefaultMaxRetrievals
    /\ rt_pc = "idle"
    /\ query = {}
    /\ rt_metadata = <<>>
    /\ k_arg = None
    /\ rt_k = 0
    /\ lexical_k = 0
    /\ sim_threshold = 0
    /\ rt_D = <<>>
    /\ rt_I = <<>>
    /\ results = <<>>
    /\ rt_semantic = <<>>
    /\ rt_presort = <<>>
    /\ rt_fallback = FALSE
    /\ rt_returned = <<>>

\* No index_documents or load_index_and_meta call is made
StoreIdle ==
    /\ fs = {}
    /\ indexFile = NoFile
    /\ metaFile = NoFile
    /\ debugFile = NoFile
    /\ ix_pc = "idle"
    /\ file_paths = <<>>
    /\ save_index = FALSE
    /\ metadata = <<>>
    /\ all_chunks = <<>>
    /\ ix_i = 0
    /\ embeddings = <<>>
    /\ index = NoIndex
    /\ ix_error = "none"
    /\ ix_build = 0
    /\ builds_left = 0
    /\ ix_faithful = TRUE
    /\ ix_embed_calls = 0
    /\ ix_docs_read = 0
    /\ disk0 = <<NoFile, NoFile>>
    /\ et_texts = <<>>
    /\ et_out = <<>>
    /\ et_status = "none"
    /\ rd_pc = "off"
    /\ rd_index = NoFile
    /\ rd_meta = NoFile

InitChunk ==
    /\ TextIdle
    /\ CHUNK_SIZE \in {0, 2}
    /\ CHUNK_OVERLAP \in {0, 1}
    /\ sent_tokens \in SeqsUpTo(0..MaxTok, MaxSent)
    /\ sentences = [s \in 1..Len(sent_tokens) |-> s]
    /\ chunk_size_arg \in ArgValues
    /\ overlap_arg \in ArgValues
    /\ chunk_size = 0
    /\ overlap = 0
    /\ ct_pc = "entry"
    /\ ct_i = 0
    /\ chunks = <<>>
    /\ ct_starts = <<>>
    /\ ct_ends = <<>>
    /\ StoreIdle
    /\ RetrieveIdle

\* lines 178-181: defaulting, then the chunk_size check fails
ChunkRaise ==
    /\ ct_pc = "entry"
    /\ OrDefault(chunk_size_arg, CHUNK_SIZE) <= 0
    /\ chunk_size' = OrDefault(chunk_size_arg, CHUNK_SIZE)
    /\ overlap' = OrDefault(overlap_arg, CHUNK_OVERLAP)
    /\ ct_pc' = "raised"
    /\ UNCHANGED <<diskVars, indexVars, loadVars, retrVars, textVars, cfgVars, sentences, sent_tokens, chunk_size_arg, overlap_arg,
                   ct_i, chunks, ct_starts, ct_ends>>

\* lines 178-191: defaulting, the check passes, empty text returns []
ChunkEnter ==
    /\ ct_pc = "entry"
    /\ OrDefault(chunk_size_arg, CHUNK_SIZE) > 0
    /\ chunk_size' = OrDefault(chunk_size_arg, CHUNK_SIZE)
    /\ overlap' = OrDefault(overlap_arg, CHUNK_OVERLAP)
    /\ ct_pc' = IF sentences = <<>> THEN "returned" ELSE "loop"
    /\ ct_i' = 0
    /\ chunks' = <<>>
    /\ UNCHANGED <<diskVars, indexVars, loadVars, retrVars, textVars, cfgVars, sentences, sent_tokens, chunk_size_arg, overlap_arg,
                   ct_starts, ct_ends>>

\* lines 193-223: one iteration of the outer loop
ChunkIterate ==
    /\ ct_pc = "loop"
    /\ ct_i < Len(sentences)
    /\ LET j == InnerLoop(sent_tokens, ct_i, 0, chunk_size)
       IN  /\ chunks' = AppendChunk(chunks, ChunkSentences(sentences, ct_i, j))
           /\ ct_starts' = Append(ct_starts, ct_i)
           /\ ct_ends' = Append(ct_ends, j)
           /\ IF j >= Len(sentences)
                THEN /\ ct_pc' = "returned"
                     /\ ct_i' = ct_i
                ELSE /\ ct_pc' = "loop"
                     /\ ct_i' = NextStart(sent_tokens, ct_i, j, overlap)
    /\ UNCHANGED <<diskVars, indexVars, loadVars, retrVars, textVars, cfgVars, sentences, sent_tokens, chunk_size_arg, overlap_arg,
                   chunk_size, overlap>>

NextChunk == ChunkRaise \/ ChunkEnter \/ ChunkIterate

SpecChunk == InitChunk /\ [][NextChunk]_vars

----------------------------------------------------------------------------
(* index_documents as a process *)

\* Input documents: name, sentences of the extracted text, their token counts
DocE == [name |-> "e.txt", sentences |-> <<>>, sent_tokens |-> <<>>]

DocA == [name |-> "a.txt", sentences |-> <<1, 2, 3>>, sent_tokens |-> <<1, 2, 1>>]

\* a file with the same base name as DocA, from another directory
DocA2 == [name |-> "a.txt", sentences |-> <<4, 5>>, sent_tokens |-> <<1, 1>>]

DocB == [name |-> "b.txt",
         sentences |-> [s \in 1..batch_size |-> 100 + s],
         sent_tokens |-> [s \in 1..batch_size |-> 1]]

DocC == [name |-> "c.txt",
         sentences |-> [s \in 1..(batch_size + 1) |-> 200 + s],
         sent_tokens |-> [s \in 1..(batch_size + 1) |-> 1]]

\* The pair of files a completed earlier build of DocA has left
OldMetadata == BuildMetadata(<<DocA>>, 1, 2, 1)

OldIndexFile == FileOf(1, BuildIndex(Faithful(AllChunks(OldMetadata))))

OldMetaFile == FileOf(1, OldMetadata)

FilePathLists == UNION {[1..m -> fs] : m \in 1..MaxFiles}

\* The locals of a fresh call
IndexCallBegins(paths, save) ==
    /\ ix_pc = "idle"
    /\ builds_left > 0
    /\ builds_left' = builds_left - 1
    /\ ix_build' = ix_build + 1
    /\ file_paths' = paths
    /\ save_index' = save
    /\ ix_docs_read' = Len(paths)
    /\ disk0' = <<indexFile, metaFile>>
    /\ ix_i' = 0
    /\ embeddings' = <<>>
    /\ index' = NoIndex
    /\ ix_faithful' = TRUE
    /\ ix_embed_calls' = 0
    /\ UNCHANGED <<retrVars, textVars, cfgVars, chunkVars, diskVars, loadVars, fs,
                   et_texts, et_out, et_status>>

\* lines 239-260: the documents are read, then chunk_text raises ValueError
\* for the first of them because config.CHUNK_SIZE <= 0
IndexRaiseConfig ==
    \E paths \in FilePathLists, save \in BOOLEAN :
        /\ IndexCallBegins(paths, save)
        /\ CHUNK_SIZE <= 0
        /\ metadata' = <<>>
        /\ all_chunks' = <<>>
        /\ ix_pc' = "raised"
        /\ ix_error' = "ValueError"

\* lines 239-268: the documents are read and chunked, no chunk results
IndexRaiseEmpty ==
    \E paths \in FilePathLists, save \in BOOLEAN :
        /\ IndexCallBegins(paths, save)
        /\ CHUNK_SIZE > 0
        /\ LET meta == BuildMetadata(paths, 1, CHUNK_SIZE, CHUNK_OVERLAP)
           IN  /\ EmptyCorpus(AllChunks(meta))
               /\ metadata' = meta
               /\ all_chunks' = AllChunks(meta)
        /\ ix_pc' = "raised"
        /\ ix_error' = "RuntimeError"

\* lines 239-272: the documents are read and chunked into at least one chunk
IndexChunk ==
    \E paths \in FilePathLists, save \in BOOLEAN :
        /\ IndexCallBegins(paths, save)
        /\ CHUNK_SIZE > 0
        /\ LET meta == BuildMetadata(paths, 1, CHUNK_SIZE, CHUNK_OVERLAP)
           IN  /\ ~EmptyCorpus(AllChunks(meta))
               /\ metadata' = meta
               /\ all_chunks' = AllChunks(meta)
        /\ ix_pc' = "embed"
        /\ ix_error' = "none"

\* lines 273-276: one batch; embed_texts returns a list
IndexEmbedBatch ==
    /\ ix_pc = "embed"
    /\ ix_i < Len(all_chunks)
    /\ LET batch_texts == BatchTexts(all_chunks, ix_i)
       IN  \E resp \in ProviderResponses(batch_texts) :
             LET batch_embs == embed_texts(resp, batch_texts)
             IN  /\ batch_embs # "RuntimeError"
                 /\ embeddings' = embeddings \o batch_embs
                 /\ ix_faithful' = (ix_faithful /\ batch_embs = Faithful(batch_texts))
                 /\ et_texts' = batch_texts
                 /\ et_out' = batch_embs
                 /\ et_status' = "returned"
    /\ ix_i' = ix_i + batch_size
    /\ ix_embed_calls' = ix_embed_calls + 1
    /\ UNCHANGED <<retrVars, textVars, cfgVars, chunkVars, diskVars, loadVars, fs, ix_pc, file_paths,
                   save_index, metadata, all_chunks, index, ix_error, ix_build,
                   builds_left, ix_docs_read, disk0>>

\* lines 273-276: one batch; embed_texts raises and index_documents with it
IndexEmbedFail ==
    /\ ix_pc = "embed"
    /\ ix_i < Len(all_chunks)
    /\ LET batch_texts == BatchTexts(all_chunks, ix_i)
       IN  \E resp \in ProviderResponses(batch_texts) :
             /\ embed_texts(resp, batch_texts) = "RuntimeError"
             /\ et_texts' = batch_texts
             /\ et_out' = <<>>
             /\ et_status' = "raised"
    /\ ix_pc' = "raised"
    /\ ix_error' = "RuntimeError"
    /\ ix_embed_calls' = ix_embed_calls + 1
    /\ UNCHANGED <<retrVars, textVars, cfgVars, chunkVars, diskVars, loadVars, fs, file_paths,
                   save_index, metadata, all_chunks, ix_i, embeddings, index,
                   ix_build, builds_left, ix_faithful, ix_docs_read, disk0>>

\* lines 278-284 and 299: the batch loop is over, the index is built
IndexBuild ==
    /\ ix_pc = "embed"
    /\ ix_i >= Len(all_chunks)
    /\ index' = BuildIndex(embeddings)
    /\ ix_pc' = IF save_index THEN "write_index" ELSE "returned"
    /\ UNCHANGED <<retrVars, textVars, cfgVars, chunkVars, diskVars, loadVars, fs, file_paths,
                   save_index, metadata, all_chunks, ix_i, embeddings, ix_error,
                   ix_build, builds_left, ix_faithful, ix_embed_calls,
                   ix_docs_read, disk0, et_texts, et_out, et_status>>

\* lines 285-286: the index file is written in place
IndexWriteIndex ==
    /\ ix_pc = "write_index"
    /\ indexFile' = FileOf(ix_build, index)
    /\ ix_pc' = "write_meta"
    /\ UNCHANGED <<retrVars, textVars, cfgVars, chunkVars, metaFile, debugFile, loadVars, fs,
                   file_paths, save_index, metadata, all_chunks, ix_i, embeddings,
                   index, ix_error, ix_build, builds_left, ix_faithful,
                   ix_embed_calls, ix_docs_read, disk0, et_texts, et_out,
                   et_status>>

\* lines 287-299: the metadata file, then the debug file, are written in place
IndexWriteMeta ==
    /\ ix_pc = "write_meta"
    /\ metaFile' = FileOf(ix_build, metadata)
    /\ debugFile' = FileOf(ix_build, <<Len(all_chunks)>>)
    /\ ix_pc' = "returned"
    /\ UNCHANGED <<retrVars, textVars, cfgVars, chunkVars, indexFile, loadVars, fs,
                   file_paths, save_index, metadata, all_chunks, ix_i, embeddings,
                   index, ix_error, ix_build, builds_left, ix_faithful,
                   ix_embed_calls, ix_docs_read, disk0, et_texts, et_out,
                   et_status>>

\* line 287: opening the metadata file fails
IndexWriteMetaFail ==
    /\ ix_pc = "write_meta"
    /\ ix_pc' = "raised"
    /\ ix_error' = "OSError"
    /\ UNCHANGED <<retrVars, textVars, cfgVars, chunkVars, diskVars, loadVars, fs,
                   file_paths, save_index, metadata, all_chunks, ix_i, embeddings,
                   index, ix_build, builds_left, ix_faithful,
                   ix_embed_calls, ix_docs_read, disk0, et_texts, et_out,
                   et_status>>

\* The caller of index_documents (app.py lines 67-72) takes the result or the
\* exception and is ready for another call
IndexFinish ==
    /\ ix_pc \in {"returned", "raised"}
    /\ builds_left > 0
    /\ ix_pc' = "idle"
    /\ UNCHANGED <<retrVars, textVars, cfgVars, chunkVars, diskVars, loadVars, fs,
                   file_paths, save_index, metadata, all_chunks, ix_i, embeddings,
                   index, ix_error, ix_build, builds_left, ix_faithful,
                   ix_embed_calls, ix_docs_read, disk0, et_texts, et_out,
                   et_status>>

IndexStep ==
    \/ IndexRaiseConfig
    \/ IndexRaiseEmpty
    \/ IndexChunk
    \/ IndexEmbedBatch
    \/ IndexEmbedFail
    \/ IndexBuild
    \/ IndexWriteIndex
    \/ IndexWriteMeta
    \/ IndexWriteMetaFail

ChunkIdle ==
    /\ sentences = <<>>
    /\ sent_tokens = <<>>
    /\ chunk_size_arg = None
    /\ overlap_arg = None
    /\ chunk_size = 0
    /\ overlap = 0
    /\ ct_pc = "idle"
    /\ ct_i = 0
    /\ chunks = <<>>
    /\ ct_starts = <<>>
    /\ ct_ends = <<>>

\* One index_documents call, over an empty store or over the files of an
\* earlier build; nobody reads the store meanwhile
InitIndex ==
    /\ TextIdle
    /\ CHUNK_SIZE \in {0, 1, 2}
    /\ CHUNK_OVERLAP \in {0, 1}
    /\ ChunkIdle
    /\ RetrieveIdle
    /\ fs = {DocE, DocA, DocB, DocC}
    /\ \/ indexFile = NoFile /\ metaFile = NoFile /\ ix_build = 0
       \/ indexFile = OldIndexFile /\ metaFile = OldMetaFile /\ ix_build = 1
    /\ debugFile = NoFile
    /\ ix_pc = "idle"
    /\ file_paths = <<>>
    /\ save_index = FALSE
    /\ metadata = <<>>
    /\ all_chunks = <<>>
    /\ ix_i = 0
    /\ embeddings = <<>>
    /\ index = NoIndex
    /\ ix_error = "none"
    /\ builds_left = 1
    /\ ix_faithful = TRUE
    /\ ix_embed_calls = 0
    /\ ix_docs_read = 0
    /\ disk0 = <<indexFile, metaFile>>
    /\ et_texts = <<>>
    /\ et_out = <<>>
    /\ et_status = "none"
    /\ rd_pc = "off"
    /\ rd_index = NoFile
    /\ rd_meta = NoFile

NextIndex == IndexStep

SpecIndex == InitIndex /\ [][NextIndex]_vars

----------------------------------------------------------------------------
(* load_index_and_meta as a process, concurrent with index_documents *)

\* lines 11-12: one of the two files is missing
LoadMissing ==
    /\ rd_pc = "idle"
    /\ ~(indexFile.exists /\ metaFile.exists)
    /\ rd_pc' = "raised"
    /\ UNCHANGED <<retrVars, textVars, cfgVars, chunkVars, diskVars, indexVars, rd_index, rd_meta>>

\* line 11: both files exist
LoadCheck ==
    /\ rd_pc = "idle"
    /\ indexFile.exists /\ metaFile.exists
    /\ rd_pc' = "read_index"
    /\ UNCHANGED <<retrVars, textVars, cfgVars, chunkVars, diskVars, indexVars, rd_index, rd_meta>>

\* line 13
LoadReadIndex ==
    /\ rd_pc = "read_index"
    /\ rd_index' = indexFile
    /\ rd_pc' = "read_meta"
    /\ UNCHANGED <<retrVars, textVars, cfgVars, chunkVars, diskVars, indexVars, rd_meta>>

\* lines 14-16
LoadReadMeta ==
    /\ rd_pc = "read_meta"
    /\ rd_meta' = metaFile
    /\ rd_pc' = "returned"
    /\ UNCHANGED <<retrVars, textVars, cfgVars, chunkVars, diskVars, indexVars, rd_index>>

\* The caller (app.py lines 98-102) holds the pair, or the exception; the
\* next question loads again
LoadFinish ==
    /\ rd_pc \in {"returned", "raised"}
    /\ rd_pc' = "idle"
    /\ UNCHANGED <<retrVars, textVars, cfgVars, chunkVars, diskVars, indexVars, rd_index, rd_meta>>

\* Rebuilds of the store, one at a time, while questions load it
InitStore ==
    /\ TextIdle
    /\ CHUNK_SIZE \in {0, 2}
    /\ CHUNK_OVERLAP \in {0, 1}
    /\ ChunkIdle
    /\ RetrieveIdle
    /\ fs = {DocE, DocA, DocA2}
    /\ indexFile = NoFile
    /\ metaFile = NoFile
    /\ debugFile = NoFile
    /\ ix_pc = "idle"
    /\ file_paths = <<>>
    /\ save_index = FALSE
    /\ metadata = <<>>
    /\ all_chunks = <<>>
    /\ ix_i = 0
    /\ embeddings = <<>>
    /\ index = NoIndex
    /\ ix_error = "none"
    /\ ix_build = 0
    /\ builds_left = MaxBuilds
    /\ ix_faithful = TRUE
    /\ ix_embed_calls = 0
    /\ ix_docs_read = 0
    /\ disk0 = <<NoFile, NoFile>>
    /\ et_texts = <<>>
    /\ et_out = <<>>
    /\ et_status = "none"
    /\ rd_pc = "idle"
    /\ rd_index = NoFile
    /\ rd_meta = NoFile

NextStore ==
    \/ IndexStep
    \/ IndexFinish
    \/ LoadMissing
    \/ LoadCheck
    \/ LoadReadIndex
    \/ LoadReadMeta
    \/ LoadFinish

SpecStore == InitStore /\ [][NextStore]_vars

----------------------------------------------------------------------------
(* retrieve as a process *)

\* Similarities the search may report, in hundredths
SemanticScores == {-20, 10, 18, 90}

\* Lists of documents whose builds give the metadata handed to retrieve
RetrieveCorpora == {<<DocA>>, <<DocA2>>, <<DocA, DocA2>>, <<DocA, DocA>>}

Queries == {{9}, {2}, {0, 2, 5}}

\* What index.search(q_arr, k) may return against n metadata records: k
\* labels, distinct unless -1, with non-increasing scores; -1 labels come
\* last with the pad score; a label of n belongs to a stale index file
SearchOutputs(k, n) ==
    {out \in [D : [1..k -> SemanticScores \cup {PadScore}], I : [1..k -> -1..n]] :
        /\ \A p \in 1..k : (out.I[p] = -1) <=> (out.D[p] = PadScore)
        /\ \A p \in 1..(k - 1) : out.D[p] >= out.D[p + 1]
        /\ \A p, r \in 1..k : (p # r /\ out.I[p] = out.I[r]) => out.I[p] = -1}

InitRetrieve ==
    /\ TextIdle
    /\ CHUNK_SIZE = 2
    /\ CHUNK_OVERLAP = 1
    /\ MAX_RETRIEVALS = MaxK
    /\ ChunkIdle
    /\ StoreIdle
    /\ rt_pc = "call"
    /\ query \in Queries
    /\ \E docs \in RetrieveCorpora :
         rt_metadata = BuildMetadata(docs, 1, CHUNK_SIZE, CHUNK_OVERLAP)
    /\ k_arg \in {None} \cup {Some(v) : v \in 0..(MaxK - 1)}
    /\ rt_k = 0
    /\ lexical_k \in {0, 1, 2, 10}
    /\ sim_threshold \in {18, 50}
    /\ rt_D = <<>>
    /\ rt_I = <<>>
    /\ results = <<>>
    /\ rt_semantic = <<>>
    /\ rt_presort = <<>>
    /\ rt_fallback = FALSE
    /\ rt_returned = <<>>

\* lines 32-33: embed_texts([query]) raises
RetrieveEmbedFail ==
    /\ rt_pc = "call"
    /\ rt_k' = OrDefault(k_arg, MAX_RETRIEVALS)
    /\ rt_pc' = "raised"
    /\ UNCHANGED <<textVars, cfgVars, chunkVars, diskVars, indexVars, loadVars, query,
                   rt_metadata, k_arg, lexical_k, sim_threshold, rt_D, rt_I,
                   results, rt_semantic, rt_presort, rt_fallback, rt_returned>>

\* lines 32-47: the query is embedded, the index searched, the hits mapped
RetrieveSearch ==
    /\ rt_pc = "call"
    /\ rt_k' = OrDefault(k_arg, MAX_RETRIEVALS)
    /\ \E out \in SearchOutputs(OrDefault(k_arg, MAX_RETRIEVALS), Len(rt_metadata)) :
         /\ rt_D' = out.D
         /\ rt_I' = out.I
         /\ results' = SemanticLoop(out.D, out.I, rt_metadata, 1)
         /\ rt_semantic' = SemanticLoop(out.D, out.I, rt_metadata, 1)
    /\ rt_pc' = "searched"
    /\ UNCHANGED <<textVars, cfgVars, chunkVars, diskVars, indexVars, loadVars, query,
                   rt_metadata, k_arg, lexical_k, sim_threshold, rt_presort,
                   rt_fallback, rt_returned>>

\* lines 50-75: the top score is below the threshold
RetrieveFallback ==
    /\ rt_pc = "searched"
    /\ FallbackNeeded(TopScore(results), sim_threshold)
    /\ results' = LexicalFallback(query, rt_metadata, results, lexical_k)
    /\ rt_fallback' = TRUE
    /\ rt_pc' = "merged"
    /\ UNCHANGED <<textVars, cfgVars, chunkVars, diskVars, indexVars, loadVars, query,
                   rt_metadata, k_arg, rt_k, lexical_k, sim_threshold, rt_D, rt_I,
                   rt_semantic, rt_presort, rt_returned>>

\* lines 50-51: the top score reaches the threshold
RetrieveNoFallback ==
    /\ rt_pc = "searched"
    /\ ~FallbackNeeded(TopScore(results), sim_threshold)
    /\ rt_pc' = "merged"
    /\ UNCHANGED <<textVars, cfgVars, chunkVars, diskVars, indexVars, loadVars, query,
                   rt_metadata, k_arg, rt_k, lexical_k, sim_threshold, rt_D, rt_I,
                   results, rt_semantic, rt_presort, rt_fallback, rt_returned>>

\* lines 78-80
RetrieveSort ==
    /\ rt_pc = "merged"
    /\ rt_presort' = results
    /\ results' = SortDesc(results)
    /\ rt_returned' = Prefix(SortDesc(results),
                             Max(rt_k, Len(results)))
    /\ rt_pc' = "returned"
    /\ UNCHANGED <<textVars, cfgVars, chunkVars, diskVars, indexVars, loadVars, query,
                   rt_metadata, k_arg, rt_k, lexical_k, sim_threshold, rt_D, rt_I,
                   rt_semantic, rt_fallback>>

NextRetrieve ==
    \/ RetrieveEmbedFail
    \/ RetrieveSearch
    \/ RetrieveFallback
    \/ RetrieveNoFallback
    \/ RetrieveSort

SpecRetrieve == InitRetrieve /\ [][NextRetrieve]_vars

----------------------------------------------------------------------------
(* The text of a PDF.  A line is a sequence of symbols; a page, like any
   text, is the sequence of its lines (the pieces between line breaks).  A
   symbol stands for one character, except "H", an upper-case word of three
   letters, and "W", a run of 119 lower-case letters. *)

Width(c) == IF c = "H" THEN 3 ELSE IF c = "W" THEN 119 ELSE 1

RECURSIVE CharLen(_)
\* len(ln)
CharLen(ln) == IF ln = <<>> THEN 0 ELSE Width(Head(ln)) + CharLen(Tail(ln))

IsSpace(c) == c = " "

\* str.islower
IsLower(c) == c \in {"a", "W"}

\* str.isdigit
IsDigit(c) == c = "7"

\* the class \w of re
IsWord(c) == c \in {"a", "B", "7", "H", "W"}

\* the class [.!?:"\)\]] of line 128; "." stands for its members
IsTerminal(c) == c = "."

RECURSIVE LStrip(_)
\* str.lstrip
LStrip(ln) == IF ln # <<>> /\ IsSpace(Head(ln)) THEN LStrip(Tail(ln)) ELSE ln

RECURSIVE RStrip(_)
\* str.rstrip
RStrip(ln) ==
    IF ln # <<>> /\ IsSpace(ln[Len(ln)])
      THEN RStrip(SubSeq(ln, 1, Len(ln) - 1))
      ELSE ln

\* str.strip
Strip(ln) == LStrip(RStrip(ln))

\* the text "" has one line, the empty one
EmptyText == << <<>> >>

----------------------------------------------------------------------------
(* _remove_repeated_headers *)

\* line 84: the stripped lines of a page that are not empty
PageLines(page) ==
    LET stripped == [n \in 1..Len(page) |-> Strip(page[n])]
        NonEmpty(ln) == ln # <<>>
    IN  SelectSeq(stripped, NonEmpty)

\* lines 83-85: page_lines
AllPageLines(pages) == [p \in 1..Len(pages) |-> PageLines(pages[p])]

\* how many elements of lines are ln
Occurrences(lines, ln) == Cardinality({n \in 1..Len(lines) : lines[n] = ln})

RECURSIVE CandidateCount(_, _, _)
\* lines 87-89: what the pages from p on add to candidate_counts[ln]
CandidateCount(page_lines, ln, p) ==
    IF p > Len(page_lines)
      THEN 0
      ELSE Occurrences(page_lines[p], ln) + CandidateCount(page_lines, ln, p + 1)

LinesOf(page_lines) ==
    UNION {{page_lines[p][n] : n \in 1..Len(page_lines[p])} :
              p \in 1..Len(page_lines)}

\* lines 88 and 91: the set repeated
Repeated(page_lines) ==
    {ln \in LinesOf(page_lines) :
        /\ 3 <= CharLen(ln)
        /\ CharLen(ln) <= 120
        /\ CandidateCount(page_lines, ln, 1) >= Max(2, Len(page_lines) \div 6)}

\* r occurs in ln: what a search for re.escape(r) finds
Contains(ln, r) ==
    \E k \in 0..(Len(ln) - Len(r)) : SubSeq(ln, k + 1, k + Len(r)) = r

\* lines 94 and 106: pattern.search(ln), pattern the alternation of repeated
PatternSearch(repeated, ln) == \E r \in repeated : Contains(ln, r)

\* lines 104-109: new_lines
NewLines(lines, repeated) ==
    LET Kept(ln) == ~PatternSearch(repeated, ln)
    IN  SelectSeq(lines, Kept)

\* lines 98-112: cleaned_pages, each page still as its list of lines
CleanedPages(pages) ==
    LET page_lines == AllPageLines(pages)
        repeated == Repeated(page_lines)
    IN  [p \in 1..Len(pages) |-> NewLines(page_lines[p], repeated)]

\* "\n".join(lines): no line at all gives the text ""
JoinLines(lines) == IF lines = <<>> THEN EmptyText ELSE lines

RECURSIVE JoinPages(_, _)
\* line 114, "\n\n".join: an empty line between a page and the next
JoinPages(texts, p) ==
    IF p >= Len(texts)
      THEN IF texts = <<>> THEN EmptyText ELSE texts[p]
      ELSE texts[p] \o EmptyText \o JoinPages(texts, p + 1)

\* lines 74-114
RemoveRepeatedHeaders(pages) ==
    LET cleaned == CleanedPages(pages)
    IN  JoinPages([p \in 1..Len(pages) |-> JoinLines(cleaned[p])], 1)

DefaultChunkSize == 1200

DefaultChunkOverlap == 200

\* the configuration when no environment variable is set
ConfigDefault ==
    /\ CHUNK_SIZE = DefaultChunkSize
    /\ CHUNK_OVERLAP = DefaultChunkOverlap

MaxPageLines == 2

\* lines a page of the documents holds: blank, too short, a header, lines that
\* hold the header text, a line of 120 characters and one of 122
HeaderLines ==
    {<<>>, <<"a", "a">>, <<"H">>, <<"a", "H">>, <<"H", " ">>, <<"W", "a">>,
     <<"W", "H">>}

HeaderPages == SeqsUpTo(HeaderLines, MaxPageLines)

\* pages without text
BlankPages(n) == [p \in 1..n |-> <<>>]

\* One _remove_repeated_headers call, on documents of 3 and of 18 pages
InitHeaders ==
    /\ ConfigDefault
    /\ ChunkIdle
    /\ StoreIdle
    /\ RetrieveIdle
    /\ LinesIdle
    /\ PdfIdle
    /\ rh_pc = "call"
    /\ \E p1 \in HeaderPages, p2 \in HeaderPages, p3 \in {<<>>, << <<"H">> >>},
          pad \in {0, 15} :
         rh_pages = <<p1, p2, p3>> \o BlankPages(pad)
    /\ rh_cleaned = <<>>
    /\ rh_out = <<>>

\* lines 74-114
RemoveHeaders ==
    /\ rh_pc = "call"
    /\ rh_cleaned' = CleanedPages(rh_pages)
    /\ rh_out' = RemoveRepeatedHeaders(rh_pages)
    /\ rh_pc' = "returned"
    /\ UNCHANGED <<cfgVars, chunkVars, diskVars, indexVars, loadVars, retrVars,
                   lineVars, pdfVars, rh_pages>>

NextHeaders == RemoveHeaders

SpecHeaders == InitHeaders /\ [][NextHeaders]_vars

----------------------------------------------------------------------------
(* _fix_hyphenation_and_broken_lines *)

\* line 118, one match of (\w+)-\n(\w+) at the end of piece: a word character
\* before the hyphen that the match before has not taken (it took the word
\* piece starts with), and a word character at the start of the next line
HyphenBreak(piece, taken, nxt) ==
    /\ Len(piece) >= 2
    /\ piece[Len(piece)] = "-"
    /\ IsWord(piece[Len(piece) - 1])
    /\ taken => \E n \in 1..(Len(piece) - 2) : ~IsWord(piece[n])
    /\ nxt # <<>>
    /\ IsWord(nxt[1])

RECURSIVE Dehyphenate(_, _, _, _)
\* line 118, re.sub from left to right: cur is the line built so far, piece
\* the input line it ends with, rest the lines after it
Dehyphenate(rest, cur, piece, taken) ==
    IF rest = <<>>
      THEN <<cur>>
      ELSE IF HyphenBreak(piece, taken, Head(rest))
             THEN Dehyphenate(Tail(rest),
                              SubSeq(cur, 1, Len(cur) - 1) \o Head(rest),
                              Head(rest), TRUE)
             ELSE <<cur>> \o Dehyphenate(Tail(rest), Head(rest), Head(rest), FALSE)

\* line 118
FixHyphenation(text) == Dehyphenate(Tail(text), Head(text), Head(text), FALSE)

\* line 120, str.splitlines: a line break at the end opens no line
SplitLines(text) ==
    IF text[Len(text)] = <<>> THEN SubSeq(text, 1, Len(text) - 1) ELSE text

\* line 128, for ln = lines[i].rstrip() and nxt = lines[i+1].lstrip()
Broken(ln, nxt) ==
    /\ ln # <<>>
    /\ ~IsTerminal(ln[Len(ln)])
    /\ nxt # <<>>
    /\ IsLower(nxt[1]) \/ IsDigit(nxt[1])

RECURSIVE JoinLoop(_, _, _, _)
\* lines 123-134 from index i on; joins collects the i of line 129
JoinLoop(lines, i, out_lines, joins) ==
    IF i >= Len(lines)
      THEN [out_lines |-> out_lines, joins |-> joins]
      ELSE LET ln == RStrip(lines[i + 1])
           IN  IF i + 1 < Len(lines) /\ Broken(ln, LStrip(lines[i + 2]))
                 THEN JoinLoop(lines, i + 2,
                               Append(out_lines,
                                      ln \o <<" ">> \o LStrip(lines[i + 2])),
                               joins \cup {i})
                 ELSE JoinLoop(lines, i + 1, Append(out_lines, ln), joins)

RECURSIVE CollapseBlank(_)
\* line 137: of the empty lines in a row one stays (those at the two ends of
\* the text are dropped by line 138 anyway)
CollapseBlank(ls) ==
    IF Len(ls) < 2
      THEN ls
      ELSE IF ls[1] = <<>> /\ ls[2] = <<>>
             THEN CollapseBlank(Tail(ls))
             ELSE <<ls[1]>> \o CollapseBlank(Tail(ls))

RECURSIVE DropLeadingBlank(_)
DropLeadingBlank(ls) ==
    IF ls # <<>> /\ Head(ls) = <<>> THEN DropLeadingBlank(Tail(ls)) ELSE ls

RECURSIVE DropTrailingBlank(_)
DropTrailingBlank(ls) ==
    IF ls # <<>> /\ ls[Len(ls)] = <<>>
      THEN DropTrailingBlank(SubSeq(ls, 1, Len(ls) - 1))
      ELSE ls

\* line 138, s.strip() on the lines of s
StripText(ls) ==
    LET core == DropTrailingBlank(DropLeadingBlank(ls))
    IN  IF core = <<>>
          THEN EmptyText
          ELSE [n \in 1..Len(core) |->
                  IF n = 1 /\ n = Len(core) THEN Strip(core[n])
                  ELSE IF n = 1 THEN LStrip(core[n])
                  ELSE IF n = Len(core) THEN RStrip(core[n])
                  ELSE core[n]]

\* line 120: lines
FixInputLines(text) == SplitLines(FixHyphenation(text))

\* lines 116-138
FixHyphenationAndBrokenLines(text) ==
    StripText(CollapseBlank(JoinLoop(FixInputLines(text), 0, <<>>, {}).out_lines))

MaxLines == 4

\* lines of the input: blank, a word in lower case, in upper case, a number,
\* a sentence end, a hyphenated word, and lines with white space at an end
FixLineValues ==
    {<<>>, <<"a">>, <<"B">>, <<"7">>, <<"a", ".">>, <<"a", "-">>, <<" ", "a">>,
     <<"a", " ">>, <<"B", ".", " ">>}

\* One _fix_hyphenation_and_broken_lines call
InitLines ==
    /\ ConfigDefault
    /\ ChunkIdle
    /\ StoreIdle
    /\ RetrieveIdle
    /\ HeadersIdle
    /\ PdfIdle
    /\ fl_pc = "call"
    /\ fl_text \in SeqsUpTo(FixLineValues, MaxLines) \ {<<>>}
    /\ fl_lines = <<>>
    /\ fl_out_lines = <<>>
    /\ fl_joins = {}
    /\ fl_out = <<>>

\* lines 116-138
FixLines ==
    /\ fl_pc = "call"
    /\ fl_lines' = FixInputLines(fl_text)
    /\ fl_out_lines' = JoinLoop(FixInputLines(fl_text), 0, <<>>, {}).out_lines
    /\ fl_joins' = JoinLoop(FixInputLines(fl_text), 0, <<>>, {}).joins
    /\ fl_out' = FixHyphenationAndBrokenLines(fl_text)
    /\ fl_pc' = "returned"
    /\ UNCHANGED <<cfgVars, chunkVars, diskVars, indexVars, loadVars, retrVars,
                   headVars, pdfVars, fl_text>>

NextLines == FixLines

SpecLines == InitLines /\ [][NextLines]_vars

----------------------------------------------------------------------------
(* extract_text_from_pdf as a process *)

\* lines 53-58: a page of text_pages, cleaned
CleanPage(p) == IF p = EmptyText THEN EmptyText ELSE StripText(CollapseBlank(p))

\* lines 51-58: pages_clean
PagesClean(pages) == [n \in 1..Len(pages) |-> CleanPage(pages[n])]

\* lines 51-63: the text made of the extracted pages
FullText(pages) ==
    FixHyphenationAndBrokenLines(RemoveRepeatedHeaders(PagesClean(pages)))

MaxPdfPages == 3

\* the text of a page: none, a heading and a broken sentence, a page header
\* over a sentence, a sentence
PdfPageValues ==
    {EmptyText,
     << <<"B">>, <<>>, <<"a">>, <<"a", ".">> >>,
     << <<"H">>, <<"B", ".">> >>,
     << <<"a", ".">> >>}

\* One extract_text_from_pdf call
InitPdf ==
    /\ ConfigDefault
    /\ ChunkIdle
    /\ StoreIdle
    /\ RetrieveIdle
    /\ HeadersIdle
    /\ LinesIdle
    /\ pdf_pc = "primary"
    /\ pdf_doc \in SeqsUpTo(PdfPageValues, MaxPdfPages)
    /\ pdf_next = 0
    /\ text_pages = <<>>
    /\ pdf_by = <<>>
    /\ pdf_page = <<>>
    /\ pdf_failed = FALSE
    /\ pdf_full = <<>>

\* lines 34-36: pdfplumber yields the text of the next page
PrimaryPage ==
    /\ pdf_pc = "primary"
    /\ pdf_next < Len(pdf_doc)
    /\ text_pages' = Append(text_pages, pdf_doc[pdf_next + 1])
    /\ pdf_by' = Append(pdf_by, "pdfplumber")
    /\ pdf_page' = Append(pdf_page, pdf_next + 1)
    /\ pdf_next' = pdf_next + 1
    /\ UNCHANGED <<cfgVars, chunkVars, diskVars, indexVars, loadVars, retrVars,
                   headVars, lineVars, pdf_pc, pdf_doc, pdf_failed, pdf_full>>

\* lines 32-37: the import, the opening of the file or the extraction of the
\* next page raises; the handler starts the fallback
PrimaryFail ==
    /\ pdf_pc = "primary"
    /\ pdf_next = 0 \/ pdf_next < Len(pdf_doc)
    /\ pdf_failed' = TRUE
    /\ pdf_next' = 0
    /\ pdf_pc' = "secondary"
    /\ UNCHANGED <<cfgVars, chunkVars, diskVars, indexVars, loadVars, retrVars,
                   headVars, lineVars, pdf_doc, text_pages, pdf_by, pdf_page,
                   pdf_full>>

\* lines 33-36: the loop over pdf.pages ends
PrimaryDone ==
    /\ pdf_pc = "primary"
    /\ pdf_next = Len(pdf_doc)
    /\ pdf_pc' = "clean"
    /\ UNCHANGED <<cfgVars, chunkVars, diskVars, indexVars, loadVars, retrVars,
                   headVars, lineVars, pdf_doc, pdf_next, text_pages, pdf_by,
                   pdf_page, pdf_failed, pdf_full>>

\* lines 43-45: PyPDF2 yields the text of the next page
SecondaryPage ==
    /\ pdf_pc = "secondary"
    /\ pdf_next < Len(pdf_doc)
    /\ text_pages' = Append(text_pages, pdf_doc[pdf_next + 1])
    /\ pdf_by' = Append(pdf_by, "PyPDF2")
    /\ pdf_page' = Append(pdf_page, pdf_next + 1)
    /\ pdf_next' = pdf_next + 1
    /\ UNCHANGED <<cfgVars, chunkVars, diskVars, indexVars, loadVars, retrVars,
                   headVars, lineVars, pdf_pc, pdf_doc, pdf_failed, pdf_full>>

\* lines 40-47: the fallback raises as well
SecondaryFail ==
    /\ pdf_pc = "secondary"
    /\ pdf_next = 0 \/ pdf_next < Len(pdf_doc)
    /\ pdf_pc' = "raised"
    /\ UNCHANGED <<cfgVars, chunkVars, diskVars, indexVars, loadVars, retrVars,
                   headVars, lineVars, pdf_doc, pdf_next, text_pages, pdf_by,
                   pdf_page, pdf_failed, pdf_full>>

\* lines 41-45: the loop over reader.pages ends
SecondaryDone ==
    /\ pdf_pc = "secondary"
    /\ pdf_next = Len(pdf_doc)
    /\ pdf_pc' = "clean"
    /\ UNCHANGED <<cfgVars, chunkVars, diskVars, indexVars, loadVars, retrVars,
                   headVars, lineVars, pdf_doc, pdf_next, text_pages, pdf_by,
                   pdf_page, pdf_failed, pdf_full>>

\* lines 51-64
PdfClean ==
    /\ pdf_pc = "clean"
    /\ pdf_full' = FullText(text_pages)
    /\ pdf_pc' = "returned"
    /\ UNCHANGED <<cfgVars, chunkVars, diskVars, indexVars, loadVars, retrVars,
                   headVars, lineVars, pdf_doc, pdf_next, text_pages, pdf_by,
                   pdf_page, pdf_failed>>

NextPdf ==
    \/ PrimaryPage
    \/ PrimaryFail
    \/ PrimaryDone
    \/ SecondaryPage
    \/ SecondaryFail
    \/ SecondaryDone
    \/ PdfClean

SpecPdf == InitPdf /\ [][NextPdf]_vars

First(seq) == seq[1]

Last(seq) == seq[Len(seq)]

InChunk(s, c) == \E m \in 1..Len(c) : c[m] = s

(* C1: for chunk_size > 0, any overlap and any non-negative token counts,
   chunk_text runs at most N iterations of its outer loop for N sentences
   (the loop is only ever re-entered with i < N, after at most i
   iterations), and the start index of every iteration is at least the
   previous start index + 1. *)
C1_ForwardProgress ==
    /\ Len(ct_starts) <= Len(sentences)
    /\ ct_pc = "loop" => /\ ct_i < Len(sentences)
                         /\ Len(ct_starts) <= ct_i
    /\ \A c \in 1..(Len(ct_starts) - 1) : ct_starts[c + 1] >= ct_starts[c] + 1
    /\ (ct_pc = "loop" /\ ct_starts # <<>>) => ct_i >= Last(ct_starts) + 1

C1_Witness ==
    /\ ct_pc = "returned"
    /\ overlap > 0
    /\ Len(sentences) >= 3
    /\ Len(ct_starts) = Len(sentences)

(* C2: the chunks returned by chunk_text are contiguous runs of sentences in
   original order; the first starts at sentence 0, each later chunk starts no
   later than the sentence where the previous chunk ended, the last chunk
   ends at the last sentence; every sentence is in some chunk, and a sentence
   shared by two chunks is shared by all chunks between them (it lies in the
   overlap of consecutive chunks). *)
C2_ChunkCoverage ==
    (ct_pc = "returned" /\ sentences # <<>>) =>
        /\ chunks # <<>>
        /\ \A c \in 1..Len(chunks) :
              /\ chunks[c] # <<>>
              /\ \A m \in 1..(Len(chunks[c]) - 1) :
                    chunks[c][m + 1] = chunks[c][m] + 1
        /\ First(chunks[1]) = First(sentences)
        /\ \A c \in 1..(Len(chunks) - 1) :
              First(chunks[c + 1]) <= Last(chunks[c]) + 1
        /\ Last(Last(chunks)) = Last(sentences)
        /\ \A s \in 1..Len(sentences) :
              \E c \in 1..Len(chunks) : InChunk(sentences[s], chunks[c])
        /\ \A s \in 1..Len(sentences) : \A a, b \in 1..Len(chunks) :
              (a < b /\ InChunk(sentences[s], chunks[a])
                     /\ InChunk(sentences[s], chunks[b]))
                => \A c \in a..b : InChunk(sentences[s], chunks[c])

C2_Witness ==
    /\ ct_pc = "returned"
    /\ Len(chunks) >= 3
    /\ \E s \in 1..Len(sentences) :
          InChunk(sentences[s], chunks[1]) /\ InChunk(sentences[s], chunks[2])
    /\ \E c \in 1..(Len(chunks) - 1) : First(chunks[c + 1]) = Last(chunks[c]) + 1

(* C3: with chunk_size > 0, overlap > 0 and positive token counts, every
   chunk after the first ends at a strictly greater sentence index than the
   chunk before it, i.e. it contains a sentence the previous chunk lacks. *)
C3_NewSentencePerChunk ==
    (/\ ct_pc \in {"loop", "returned"}
     /\ overlap > 0
     /\ \A s \in 1..Len(sent_tokens) : sent_tokens[s] > 0)
      => \A c \in 1..(Len(chunks) - 1) :
            /\ Last(chunks[c + 1]) > Last(chunks[c])
            /\ \E m \in 1..Len(chunks[c + 1]) :
                  ~InChunk(chunks[c + 1][m], chunks[c])

(* C4: chunk_text fails, returning no chunks, for every chunk_size <= 0
   passed by the caller, zero as well as negative. *)
C4_NonPositiveSizeRaises ==
    (ct_pc \in {"loop", "returned", "raised"}
       /\ chunk_size_arg.given /\ chunk_size_arg.val <= 0)
      => (ct_pc = "raised" /\ chunks = <<>>)

RECURSIVE ConcatChunks(_, _)
\* the chunks of docs[d..], document after document
ConcatChunks(docs, d) ==
    IF d > Len(docs)
      THEN <<>>
      ELSE ChunkTextDefault(docs[d], CHUNK_SIZE, CHUNK_OVERLAP)
             \o ConcatChunks(docs, d + 1)

(* C5: at every moment during and after index_documents with save_index, the
   persisted index file and metadata file come from the same build, and
   load_index_and_meta never returns the index of one build with the
   metadata of another. *)
C5_ConsistentPair ==
    /\ (indexFile.exists /\ metaFile.exists) => indexFile.build = metaFile.build
    /\ rd_pc = "returned" => rd_index.build = rd_meta.build

(* C6: after a successful index_documents over documents yielding M >= 1
   chunks, every embed_texts call having returned one vector per input in
   input order, the index holds exactly M vectors, metadata has M records
   whose texts are the chunks in document order, and the vector at position
   i is the normalized embedding of metadata[i].text, whatever M is relative
   to the batch size. *)
C6_Alignment ==
    (ix_pc = "returned" /\ ix_faithful) =>
        LET M == Len(ConcatChunks(file_paths, 1))
        IN  /\ M >= 1
            /\ Len(index.vectors) = M
            /\ Len(metadata) = M
            /\ \A m \in 1..M :
                 /\ metadata[m].text = ConcatChunks(file_paths, 1)[m]
                 /\ index.vectors[m] = NormalizeL2(Embed(metadata[m].text))

C6_Witness ==
    /\ ix_pc = "returned"
    /\ ix_faithful
    /\ Len(metadata) = 2 * batch_size + 1
    /\ ix_embed_calls = 3

(* C7: embed_texts returns exactly len(texts) vectors or fails; it never
   returns a list of another length, whatever the provider answered. *)
C7_EmbedLength ==
    et_status = "returned" => Len(et_out) = Len(et_texts)

(* C8: when the input documents produce no chunk at all, index_documents
   fails without calling the embedding client and without creating or
   overwriting the index file or the metadata file. *)
C8_EmptyCorpusFails ==
    (ix_pc # "idle" /\ CHUNK_SIZE > 0 /\ ConcatChunks(file_paths, 1) = <<>>) =>
        /\ ix_pc = "raised"
        /\ ix_error = "RuntimeError"
        /\ ix_embed_calls = 0
        /\ et_status = "none"
        /\ <<indexFile, metaFile>> = disk0

C8_Witness ==
    /\ ix_pc = "raised"
    /\ ix_error = "RuntimeError"
    /\ file_paths = <<DocE, DocE>>
    /\ all_chunks = <<>>
    /\ indexFile = OldIndexFile
    /\ metaFile = OldMetaFile

\* the elements of seq whose score is v, in their order in seq
WithScore(seq, v) ==
    LET Has(r) == r.score = v IN SelectSeq(seq, Has)

\* positions of the search output whose label is a metadata position
HitPositions ==
    {p \in 1..Len(rt_I) : rt_I[p] >= 0 /\ rt_I[p] < Len(rt_metadata)}

\* the result a record of the metadata gives when added with score sc
ResultOf(rec, sc) ==
    [score |-> sc, doc_id |-> rec.doc_id, chunk_id |-> rec.chunk_id,
     text |-> rec.text]

(* C9: the sequence retrieve returns is in non-increasing order of score;
   results of equal score keep their discovery order (semantic hits in search
   rank order, then lexical additions in the order added); every result keeps
   the score it was added with (the similarity the search reported, or the
   lexical score of its text), and none is dropped. *)
C9_StableDescending ==
    rt_pc = "returned" =>
        /\ \A n \in 1..(Len(rt_returned) - 1) :
              rt_returned[n].score >= rt_returned[n + 1].score
        /\ Len(rt_returned) = Len(rt_presort)
        /\ \A n \in 1..Len(rt_presort) :
              WithScore(rt_returned, rt_presort[n].score)
                = WithScore(rt_presort, rt_presort[n].score)
        /\ Len(rt_semantic) = Cardinality(HitPositions)
        /\ Prefix(rt_presort, Len(rt_semantic)) = rt_semantic
        /\ \A n \in 1..Len(rt_semantic) :
              \E p \in HitPositions :
                 /\ Cardinality({r \in HitPositions : r < p}) = n - 1
                 /\ rt_semantic[n] = ResultOf(rt_metadata[rt_I[p] + 1], rt_D[p])
        /\ \A n \in (Len(rt_semantic) + 1)..Len(rt_presort) :
              rt_presort[n].score = KeywordScore(query, rt_presort[n].text)

C9_Witness ==
    /\ rt_pc = "returned"
    /\ rt_fallback
    /\ Len(rt_semantic) = 2
    /\ Len(rt_returned) >= 4
    /\ rt_returned # rt_presort
    /\ \E n \in 1..(Len(rt_returned) - 1) :
          /\ rt_returned[n].score = rt_returned[n + 1].score
          /\ rt_returned[n] # rt_returned[n + 1]

\* the best similarity among the valid semantic hits; 0 when there is none
BestSemantic ==
    IF HitPositions = {}
      THEN 0
      ELSE CHOOSE v \in {rt_D[p] : p \in HitPositions} :
              \A p \in HitPositions : rt_D[p] <= v

LexScoreOf(m) == KeywordScore(query, rt_metadata[m].text)

\* rank of record m among the records ordered by lexical score, descending,
\* records of equal score in metadata order
LexRank(m) ==
    1 + Cardinality({o \in 1..Len(rt_metadata) :
                        \/ LexScoreOf(o) > LexScoreOf(m)
                        \/ LexScoreOf(o) = LexScoreOf(m) /\ o < m})

SemanticKeys ==
    {<<rt_metadata[rt_I[p] + 1].doc_id, rt_metadata[rt_I[p] + 1].chunk_id>> :
        p \in HitPositions}

(* C10: retrieve takes the lexical fallback exactly when the best semantic
   score is below sim_threshold.  At or above it, the results returned are
   exactly the valid semantic hits with the similarities reported, at most k.
   Below it, every record among the top lexical_k by lexical score > 0 whose
   (doc_id, chunk_id) is not that of a semantic hit is returned with its
   lexical score as pseudo-score (lexical_score/100, in hundredths). *)
C10_FallbackTrigger ==
    rt_pc = "returned" =>
        /\ rt_fallback <=> (BestSemantic < sim_threshold)
        /\ BestSemantic >= sim_threshold =>
              /\ Len(rt_returned) = Cardinality(HitPositions)
              /\ Len(rt_returned) <= rt_k
              /\ \A p \in HitPositions : \E n \in 1..Len(rt_returned) :
                    rt_returned[n] = ResultOf(rt_metadata[rt_I[p] + 1], rt_D[p])
        /\ BestSemantic < sim_threshold =>
              \A m \in 1..Len(rt_metadata) :
                 (/\ LexScoreOf(m) > 0
                  /\ LexRank(m) <= lexical_k
                  /\ <<rt_metadata[m].doc_id, rt_metadata[m].chunk_id>>
                        \notin SemanticKeys)
                   => \E n \in 1..Len(rt_returned) :
                         rt_returned[n] = ResultOf(rt_metadata[m], LexScoreOf(m))

C10_Witness ==
    /\ rt_pc = "returned"
    /\ rt_fallback
    /\ HitPositions # {}
    /\ BestSemantic = 10
    /\ lexical_k = 2
    /\ Len(rt_returned) = Len(rt_semantic) + 1
    /\ \E m \in 1..Len(rt_metadata) :
          LexScoreOf(m) > 0 /\ LexRank(m) <= lexical_k
            /\ <<rt_metadata[m].doc_id, rt_metadata[m].chunk_id>> \in SemanticKeys

(* C11: the sequence retrieve returns holds no two results with the same
   (doc_id, chunk_id), whatever the query, k, lexical_k and the files the
   metadata was built from. *)
C11_NoDuplicateKeys ==
    rt_pc = "returned" =>
        \A a, b \in 1..Len(rt_returned) :
            a # b => ResultKey(rt_returned[a]) # ResultKey(rt_returned[b])

\* the records of the metadata a result may have been taken from
RecordsOf(r) ==
    {m \in 1..Len(rt_metadata) :
        /\ rt_metadata[m].doc_id = r.doc_id
        /\ rt_metadata[m].chunk_id = r.chunk_id
        /\ rt_metadata[m].text = r.text}

\* positions of the search output whose label is no metadata position
StalePositions == (1..Len(rt_I)) \ HitPositions

(* C12: a label of the search outside [0, len(metadata)) gives no result and
   no error: the semantic results are the records at the labels in range,
   one per such label with the similarity reported, every result returned
   carries the doc_id, chunk_id and text of a metadata record, and the only
   failure of retrieve happens before the search has produced a label. *)
C12_OutOfRangeDiscarded ==
    /\ rt_pc = "raised" => rt_I = <<>> /\ rt_D = <<>>
    /\ rt_pc \in {"searched", "merged", "returned"} =>
          /\ Len(rt_semantic) = Cardinality(HitPositions)
          /\ \A n \in 1..Len(rt_semantic) : \E p \in HitPositions :
                rt_semantic[n] = ResultOf(rt_metadata[rt_I[p] + 1], rt_D[p])
          /\ \A n \in 1..Len(results) : RecordsOf(results[n]) # {}
    /\ rt_pc = "returned" =>
          \A n \in 1..Len(rt_returned) : RecordsOf(rt_returned[n]) # {}

C12_Witness ==
    /\ rt_pc = "returned"
    /\ \E p \in StalePositions : rt_I[p] >= Len(rt_metadata)
    /\ \E p \in StalePositions : rt_I[p] < 0
    /\ rt_semantic = <<>>
    /\ rt_returned # <<>>

(* C13: when chunk_text is called with overlap given and <= 0, every chunk
   after the first starts at the sentence index where the previous chunk
   ended, so no sentence is in two chunks. *)
C13_NoOverlapWhenNonPositive ==
    (ct_pc \in {"loop", "returned"} /\ overlap_arg.given /\ overlap_arg.val <= 0) =>
        /\ \A c \in 1..(Len(chunks) - 1) : ct_starts[c + 1] = ct_ends[c]
        /\ \A s \in 1..Len(sentences) :
              Cardinality({c \in 1..Len(chunks) : InChunk(sentences[s], chunks[c])}) <= 1

\* the pages on which ln is one of the trimmed non-empty lines
PagesWith(ln) ==
    {p \in 1..Len(rh_pages) :
        \E n \in 1..Len(PageLines(rh_pages[p])) : PageLines(rh_pages[p])[n] = ln}

IsRepeatedHeader(ln) ==
    /\ 3 <= CharLen(ln)
    /\ CharLen(ln) <= 120
    /\ Cardinality(PagesWith(ln)) >= Max(2, Len(rh_pages) \div 6)

(* C14: _remove_repeated_headers removes a trimmed non-empty line exactly
   when it is 3 to 120 characters long and occurs on at least
   max(2, page_count // 6) distinct pages; each page keeps all its other
   lines, unchanged and in their order. *)
C14_RemovesExactlyRepeated ==
    rh_pc = "returned" =>
        \A p \in 1..Len(rh_pages) :
            LET Kept(ln) == ~IsRepeatedHeader(ln)
            IN  rh_cleaned[p] = SelectSeq(PageLines(rh_pages[p]), Kept)

\* lines[i] and lines[i+1] (i from 0) are a broken pair: the first is not
\* empty and does not end in sentence-terminal punctuation, the second
\* starts with a lower-case letter or a digit
BrokenPair(i) == Broken(RStrip(fl_lines[i + 1]), LStrip(fl_lines[i + 2]))

(* C15: _fix_hyphenation_and_broken_lines joins two adjacent lines with a
   single space exactly when they are a broken pair; every broken pair is
   joined, those inside a run of three or more broken lines too. *)
C15_EveryBrokenPairJoined ==
    fl_pc = "returned" =>
        \A i \in 0..(Len(fl_lines) - 2) : BrokenPair(i) <=> i \in fl_joins

(* C16: when the primary extractor has failed, at the opening or after some
   pages, the text extract_text_from_pdf returns is built from the pages of
   the secondary extractor alone, every page of the document once and in page
   order; when the secondary extractor fails too the call raises and returns
   no text. *)
C16_FallbackPagesAlone ==
    /\ (pdf_pc \in {"clean", "returned"} /\ pdf_failed) =>
          /\ Len(text_pages) = Len(pdf_doc)
          /\ \A n \in 1..Len(text_pages) :
                /\ pdf_by[n] = "PyPDF2"
                /\ pdf_page[n] = n
                /\ text_pages[n] = pdf_doc[n]
    /\ (pdf_pc = "returned" /\ pdf_failed) => pdf_full = FullText(pdf_doc)
    /\ pdf_pc = "raised" => pdf_failed /\ pdf_full = <<>>

====
